---- MODULE Spec2Model ----
(***************************************************************************)
(* The enclave clock of tools/myst/enc/clock: the clock_ctrl record, the   *)
(* calibration entry point myst_setup_clock and the overflow guard _check  *)
(* as the Rust sources define them, and the controller operations tick,    *)
(* now and stop, which the Rust port does not contain (its files are       *)
(* "From: tools/myst/enc/_clock.c") and which are modelled from the        *)
(* written specification of the controller.                                *)
(*                                                                         *)
(* Times are in model units.  The 64-bit words of clock_ctrl are modelled  *)
(* with Bits bits, so that the signed range ends at 2^(Bits-1) - 1 and an  *)
(* addition that leaves it wraps exactly as the 64-bit one does.           *)
(***************************************************************************)
EXTENDS Integers, Sequences, FiniteSets

VARIABLES ctrl, initialized, calls

vars == <<ctrl, initialized, calls>>

(***************************************************************************)
(* Bounds of the model.                                                    *)
(***************************************************************************)
\* width, in bits, of the model's c_long / c_ulong
Bits == 10
\* number of calls a run makes
MaxCalls == 4

(***************************************************************************)
(* Number ranges of the fields of clock_ctrl.                              *)
(***************************************************************************)
I64_MAX == 2^(Bits - 1) - 1
I64_MIN == -(2^(Bits - 1))
U64_MAX == 2^Bits - 1

c_long == I64_MIN..I64_MAX
c_ulong == 0..U64_MAX
c_int == (-2147483647 - 1)..2147483647

\* a NANO_IN_SECOND that lost a digit
NANO_IN_SECOND_short == 10^8
NANO_IN_SECOND == 1000000000
MICRO_IN_SECOND == 1000000

\* #[repr(C)] pub struct clock_ctrl
clock_ctrl ==
  [realtime0 : c_long, monotime0 : c_long, now : c_long,
   interval : c_ulong, done : c_int]

\* the Clock State at construction: every field zero
ZeroCtrl ==
  [realtime0 |-> 0, monotime0 |-> 0, now |-> 0, interval |-> 0, done |-> 0]

(***************************************************************************)
(* Results of the operations.  A result is a tag and a value: the tag is   *)
(* "c_int" for the C status of myst_setup_clock, "Ok" for a success and    *)
(* the error kind for a failure.                                           *)
(***************************************************************************)
Ok(v) == [tag |-> "Ok", val |-> v]
Err(kind) == [tag |-> kind, val |-> 0]
Status(n) == [tag |-> "c_int", val |-> n]
Unit == Ok(0)

(***************************************************************************)
(* The samples a caller hands to myst_setup_clock: a clock_ctrl holding    *)
(* the real-time sample, the monotonic sample and the interval.            *)
(***************************************************************************)
RealSamples == {170, 171}
MonoSamples == {500, I64_MAX}
Intervals == {0, 1}

SetupArgs ==
  { [realtime0 |-> r, monotime0 |-> m, now |-> 0, interval |-> i, done |-> 0] :
      r \in RealSamples, m \in MonoSamples, i \in Intervals }

(***************************************************************************)
(* The operations, as functions from the controller's state                *)
(* st = [ctrl, initialized] to the state they leave and what they return.  *)
(***************************************************************************)

\* a calibration that stores the samples and publishes the state, and
\* reports failure all the same
myst_setup_clock_stores(st, arg) ==
  [st |-> [ctrl |-> [st.ctrl EXCEPT !.realtime0 = arg.realtime0,
                                    !.monotime0 = arg.monotime0,
                                    !.interval = arg.interval,
                                    !.now = arg.monotime0],
           initialized |-> TRUE],
   ret |-> Status(-1)]

\* a calibration that copies the caller's record over the Clock State,
\* its done field included
myst_setup_clock_copies(st, arg) ==
  [st |-> [st EXCEPT !.ctrl = arg], ret |-> Status(-1)]

\* a calibration with no guard against a second call: it stores the samples
\* and reports success every time
myst_setup_clock_recalibrates(st, arg) ==
  [st |-> [ctrl |-> [st.ctrl EXCEPT !.realtime0 = arg.realtime0,
                                    !.monotime0 = arg.monotime0,
                                    !.interval = arg.interval,
                                    !.now = arg.monotime0],
           initialized |-> TRUE],
   ret |-> Status(0)]

\* a calibration that takes the real-time sample for the baseline of now,
\* publishes the state and reports failure
myst_setup_clock_realtime(st, arg) ==
  [st |-> [ctrl |-> [st.ctrl EXCEPT !.realtime0 = arg.realtime0,
                                    !.monotime0 = arg.monotime0,
                                    !.interval = arg.interval,
                                    !.now = arg.realtime0],
           initialized |-> TRUE],
   ret |-> Status(-1)]

\* pub extern "C" fn myst_setup_clock(ctrl: *const clock_ctrl) -> c_int { -1 }
myst_setup_clock(st, arg) ==
  [st |-> st, ret |-> Status(-1)]

\* fn _check(overflowed: bool): returns when nothing overflowed, and falls
\* off its end, returning as well, when something did
_check(overflowed) ==
  IF ~overflowed THEN Unit ELSE Unit

\* the value a Bits-bit signed word holds after x is stored in it
Wrap(x) == ((x - I64_MIN) % 2^Bits) + I64_MIN

\* overflow-checked addition of the unsigned interval to the signed now
checked_add(a, b) ==
  [value |-> Wrap(a + b), overflowed |-> a + b > I64_MAX]

\* tick(): NotInitialized before calibration; otherwise candidate =
\* now + interval through the overflow guard, and now replaced by it
tick(st) ==
  IF ~st.initialized
  THEN [st |-> st, ret |-> Err("NotInitialized")]
  ELSE LET sum == checked_add(st.ctrl.now, st.ctrl.interval)
           guard == _check(sum.overflowed)
       IN  IF guard # Unit
           THEN [st |-> st, ret |-> guard]
           ELSE [st |-> [st EXCEPT !.ctrl.now = sum.value],
                 ret |-> Ok(sum.value)]

\* now(): the last accepted now; NotInitialized before calibration
now(st) ==
  IF ~st.initialized
  THEN [st |-> st, ret |-> Err("NotInitialized")]
  ELSE [st |-> st, ret |-> Ok(st.ctrl.now)]

\* stop(): done = true
stop(st) ==
  [st |-> [st EXCEPT !.ctrl.done = 1], ret |-> Unit]

(***************************************************************************)
(* The state machine: one action per call.  calls is the record of the     *)
(* calls made so far, each with its argument, its result and the state it  *)
(* left.                                                                   *)
(***************************************************************************)
State == [ctrl |-> ctrl, initialized |-> initialized]

NoArg == ZeroCtrl

Call(op, arg, r) ==
  /\ Len(calls) < MaxCalls
  /\ ctrl' = r.st.ctrl
  /\ initialized' = r.st.initialized
  /\ calls' = Append(calls, [op |-> op, arg |-> arg, flag |-> FALSE,
                             ret |-> r.ret, st |-> r.st])

Init ==
  /\ ctrl = ZeroCtrl
  /\ initialized = FALSE
  /\ calls = <<>>

Setup == \E arg \in SetupArgs : Call("setup", arg, myst_setup_clock(State, arg))

Tick == Call("tick", NoArg, tick(State))

Now == Call("now", NoArg, now(State))

Stop == Call("stop", NoArg, stop(State))

Check ==
  \E b \in BOOLEAN :
    /\ Len(calls) < MaxCalls
    /\ calls' = Append(calls, [op |-> "check", arg |-> NoArg, flag |-> b,
                               ret |-> _check(b), st |-> State])
    /\ UNCHANGED <<ctrl, initialized>>

Next == Setup \/ Tick \/ Now \/ Stop \/ Check

Spec == Init /\ [][Next]_vars

TypeOK ==
  /\ ctrl \in clock_ctrl
  /\ initialized \in BOOLEAN
  /\ Len(calls) <= MaxCalls

(***************************************************************************)
(* Reading the record of calls.                                            *)
(***************************************************************************)
NCalls == Len(calls)

IsCall(i, op) == i \in 1..NCalls /\ calls[i].op = op

\* a setup call that reported success (C status 0)
SetupSucceeded(i) == IsCall(i, "setup") /\ calls[i].ret = Status(0)

\* a setup call that reported failure
SetupFailed(i) == IsCall(i, "setup") /\ calls[i].ret # Status(0)

\* a setup call whose interval is positive
ValidSetup(i) == IsCall(i, "setup") /\ calls[i].arg.interval > 0

TickSucceeded(i) == IsCall(i, "tick") /\ calls[i].ret.tag = "Ok"

\* the controller's state before and after call i
Fresh == [ctrl |-> ZeroCtrl, initialized |-> FALSE]

Pre(i) == IF i = 1 THEN Fresh ELSE calls[i - 1].st

Post(i) == calls[i].st

\* no setup call before call i has reported success
NotCalibratedBefore(i) == \A j \in 1..(i - 1) : ~SetupSucceeded(j)

\* the Clock State a calibration of c with the samples of arg leaves
Calibrated(c, arg) ==
  [c EXCEPT !.realtime0 = arg.realtime0, !.monotime0 = arg.monotime0,
            !.interval = arg.interval, !.now = arg.monotime0]

(***************************************************************************)
(* C1.  After setup(r0, m0, interval) with interval > 0 and N successful   *)
(* ticks, now() is m0 + N * interval; and setup with the monotonic sample  *)
(* 500 and the interval 1 followed by three ticks returns 501, 502, 503.   *)
(***************************************************************************)
C1_General ==
  (/\ NCalls >= 1
   /\ SetupSucceeded(1)
   /\ \A k \in 2..NCalls : TickSucceeded(k))
  => now(State).ret =
       Ok(calls[1].arg.monotime0 + (NCalls - 1) * calls[1].arg.interval)

C1_Scenario ==
  (/\ NCalls = 4
   /\ IsCall(1, "setup")
   /\ calls[1].arg.monotime0 = 500
   /\ calls[1].arg.interval = 1
   /\ \A k \in 2..4 : IsCall(k, "tick"))
  => /\ calls[2].ret = Ok(501)
     /\ calls[3].ret = Ok(502)
     /\ calls[4].ret = Ok(503)

C1_TicksAccumulate == C1_General /\ C1_Scenario

(***************************************************************************)
(* C2.  Monotonicity: a successful tick returns a value strictly greater   *)
(* than the now it found (the previous tick's value, or the baseline       *)
(* monotime0 for the first tick after setup) whenever interval > 0, and    *)
(* once calibration has completed no call makes the stored now smaller.    *)
(* The first tick after a setup with interval > 0 that cannot overflow is  *)
(* such a tick.                                                            *)
(***************************************************************************)
C2_General ==
  \A i \in 1..NCalls :
    (TickSucceeded(i) /\ Pre(i).ctrl.interval > 0)
      => calls[i].ret.val > Pre(i).ctrl.now

C2_NowNeverDecreases ==
  \A i \in 1..NCalls :
    Pre(i).initialized => Post(i).ctrl.now >= Pre(i).ctrl.now

C2_Scenario ==
  (/\ NCalls >= 2
   /\ ValidSetup(1)
   /\ calls[1].arg.monotime0 + calls[1].arg.interval <= I64_MAX
   /\ IsCall(2, "tick"))
  => /\ TickSucceeded(2)
     /\ calls[2].ret.val > calls[1].arg.monotime0

C3_General ==
  \A i \in 1..NCalls :
    (/\ IsCall(i, "tick")
     /\ Pre(i).initialized
     /\ Pre(i).ctrl.now + Pre(i).ctrl.interval > I64_MAX)
    => /\ calls[i].ret = Err("ClockOverflow")
       /\ Post(i) = Pre(i)

C3_Scenario ==
  (/\ NCalls = 2
   /\ ValidSetup(1)
   /\ calls[1].arg.monotime0 = I64_MAX - calls[1].arg.interval + 1
   /\ IsCall(2, "tick"))
  => /\ calls[2].ret = Err("ClockOverflow")
     /\ now(State).ret = Ok(calls[1].arg.monotime0)

C4_SetupCalibrates ==
  \A i \in 1..NCalls :
    (/\ IsCall(i, "setup")
     /\ ~Pre(i).initialized
     /\ calls[i].arg.interval > 0)
    => /\ calls[i].ret = Status(0)
       /\ Post(i) = [ctrl |-> Calibrated(Pre(i).ctrl, calls[i].arg),
                     initialized |-> TRUE]

C6_General ==
  \A i \in 1..NCalls :
    (IsCall(i, "setup") /\ \E j \in 1..(i - 1) : SetupSucceeded(j))
      => SetupFailed(i) /\ Post(i) = Pre(i)

C6_Scenario ==
  \A i \in 2..NCalls :
    (/\ ValidSetup(1)
     /\ IsCall(i, "setup")
     /\ \A k \in 2..(i - 1) : calls[k].op \in {"tick", "now"})
    => /\ SetupFailed(i)
       /\ Post(i) = Pre(i)
       /\ Post(i).ctrl.realtime0 = calls[1].arg.realtime0
       /\ Post(i).ctrl.monotime0 = calls[1].arg.monotime0
       /\ Post(i).ctrl.interval = calls[1].arg.interval

C7_General ==
  \A i \in 1..NCalls :
    (IsCall(i, "setup") /\ calls[i].arg.interval = 0)
      => SetupFailed(i) /\ Post(i) = Pre(i)

C7_Scenario ==
  (/\ NCalls = 3
   /\ IsCall(1, "setup")
   /\ calls[1].arg.interval = 0
   /\ IsCall(2, "tick")
   /\ ValidSetup(3))
  => /\ calls[2].ret = Err("NotInitialized")
     /\ SetupSucceeded(3)
     /\ Post(3) = [ctrl |-> Calibrated(Pre(3).ctrl, calls[3].arg),
                   initialized |-> TRUE]

C7_ZeroIntervalRejected == C7_General /\ C7_Scenario

(***************************************************************************)
(* C8.  The overflow guard returns success when overflowed is false and    *)
(* fails with ClockOverflow when overflowed is true, and changes no state. *)
(***************************************************************************)
C8_CheckOverflow ==
  \A i \in 1..NCalls :
    IsCall(i, "check")
      => /\ calls[i].ret = (IF calls[i].flag THEN Err("ClockOverflow") ELSE Unit)
         /\ Post(i) = Pre(i)

C12_Constants ==
  NCalls >= 0 =>
    /\ NANO_IN_SECOND = 10^9
    /\ MICRO_IN_SECOND = 10^6
    /\ NANO_IN_SECOND \in c_int
    /\ MICRO_IN_SECOND \in c_int
    /\ NANO_IN_SECOND = 1000 * MICRO_IN_SECOND

\* before any call, a caller converts one second to nanoseconds and on to
\* microseconds
C12_Witness ==
  /\ NCalls = 0
  /\ 1 * NANO_IN_SECOND \in c_int
  /\ (1 * NANO_IN_SECOND) \div (NANO_IN_SECOND \div MICRO_IN_SECOND) = 10^6

(***************************************************************************)
(* C13.  Readers calling now() while the one writer is inside tick():      *)
(* not settled.  The Rust sources hold no tick and no now, clock_ctrl.now  *)
(* is a plain c_long, and no state in which a reader is handed a value is  *)
(* reachable; nothing of the source decides how now is written.            *)
(***************************************************************************)

(***************************************************************************)
(* C14.  Frame of tick(): a successful tick changes only now, a failed     *)
(* tick changes nothing.  realtime0, monotime0 and interval are            *)
(* write-once: no call after a successful setup changes them, and tick,    *)
(* now, stop and the overflow guard never do.                              *)
(***************************************************************************)
SameBaseline(s, t) ==
  /\ s.ctrl.realtime0 = t.ctrl.realtime0
  /\ s.ctrl.monotime0 = t.ctrl.monotime0
  /\ s.ctrl.interval = t.ctrl.interval

C16_General ==
  \A i, j \in 1..NCalls :
    (/\ i < j
     /\ IsCall(i, "tick")
     /\ calls[i].ret = Err("ClockOverflow")
     /\ IsCall(j, "tick"))
    => /\ calls[j].ret = Err("ClockOverflow")
       /\ now(Post(j)).ret = now(Pre(i)).ret

C16_Scenario ==
  (/\ NCalls = 3
   /\ ValidSetup(1)
   /\ calls[1].arg.monotime0 = I64_MAX - calls[1].arg.interval + 1
   /\ IsCall(2, "tick")
   /\ IsCall(3, "tick"))
  => /\ calls[2].ret = Err("ClockOverflow")
     /\ calls[3].ret = Err("ClockOverflow")
     /\ now(State).ret = Ok(calls[1].arg.monotime0)

Apply(c, st) ==
  CASE c.op = "setup" -> myst_setup_clock(st, c.arg)
    [] c.op = "tick" -> tick(st)
    [] c.op = "now" -> now(st)
    [] c.op = "stop" -> stop(st)
    [] OTHER -> [st |-> st, ret |-> _check(c.flag)]

\* the results of the calls cs made one after the other from the state st
RECURSIVE Run(_, _)
Run(cs, st) ==
  IF cs = <<>>
  THEN <<>>
  ELSE LET r == Apply(Head(cs), st)
       IN  <<r.ret>> \o Run(Tail(cs), r.st)

(***************************************************************************)
(* C17.  Trusted time does not depend on the real-time sample: a second    *)
(* run that makes the same calls, with the same monotonic samples and      *)
(* intervals and any other real-time samples, gets the same result from    *)
(* every tick() and every now().                                           *)
(***************************************************************************)
\* the setup calls of the run
SetupCalls == {i \in 1..NCalls : calls[i].op = "setup"}

\* the calls of the run, with the real-time sample of the setup call i
\* replaced by f[i]
WithRealtime(f) ==
  [i \in 1..NCalls |->
     IF calls[i].op = "setup"
     THEN [calls[i] EXCEPT !.arg.realtime0 = f[i]]
     ELSE calls[i]]

Field(n, t) == [name |-> n, type |-> t]

\* clock.rs with its interval declared before its now
clock_ctrl_rs_swapped ==
  << Field("realtime0", "i64"), Field("monotime0", "i64"),
     Field("interval", "u64"), Field("now", "i64"), Field("done", "i32") >>

\* clock.rs: #[repr(C)] pub struct clock_ctrl
clock_ctrl_rs ==
  << Field("realtime0", "i64"), Field("monotime0", "i64"),
     Field("now", "i64"), Field("interval", "u64"), Field("done", "i32") >>

\* clock/src/lib.rs: #[repr(C)] pub struct clock_ctrl
clock_ctrl_libc ==
  << Field("realtime0", "c_long"), Field("monotime0", "c_long"),
     Field("now", "c_long"), Field("interval", "c_ulong"),
     Field("done", "c_int") >>

\* signedness and width of a field type
Repr(t) ==
  CASE t = "i64" -> [signed |-> TRUE, bits |-> 64]
    [] t = "u64" -> [signed |-> FALSE, bits |-> 64]
    [] t = "i32" -> [signed |-> TRUE, bits |-> 32]
    [] t = "c_long" -> [signed |-> TRUE, bits |-> 64]
    [] t = "c_ulong" -> [signed |-> FALSE, bits |-> 64]
    [] t = "c_int" -> [signed |-> TRUE, bits |-> 32]

\* a declaration as the names, signedness and widths of its fields, in order
Layout(decl) ==
  [i \in 1..Len(decl) |->
     [name |-> decl[i].name,
      signed |-> Repr(decl[i].type).signed,
      bits |-> Repr(decl[i].type).bits]]

(***************************************************************************)
(* C18.  The Clock State record has exactly the fields realtime0,          *)
(* monotime0, now, interval, done, in that order: realtime0, monotime0 and *)
(* now signed 64-bit, interval unsigned 64-bit, done 32-bit; the           *)
(* declarations of clock.rs and of clock/src/lib.rs agree on it, and the   *)
(* Clock State of every reachable state has those fields.                  *)
(***************************************************************************)
\* the layout the claim enumerates
C18_Enumerated ==
  << [name |-> "realtime0", signed |-> TRUE, bits |-> 64],
     [name |-> "monotime0", signed |-> TRUE, bits |-> 64],
     [name |-> "now", signed |-> TRUE, bits |-> 64],
     [name |-> "interval", signed |-> FALSE, bits |-> 64],
     [name |-> "done", signed |-> TRUE, bits |-> 32] >>

C18_LayoutsAgree ==
  /\ Layout(clock_ctrl_libc) = C18_Enumerated
  /\ Layout(clock_ctrl_rs) = C18_Enumerated
  /\ Layout(clock_ctrl_rs) = Layout(clock_ctrl_libc)
  /\ DOMAIN ctrl = {clock_ctrl_libc[i].name : i \in 1..Len(clock_ctrl_libc)}
  /\ DOMAIN ctrl = {clock_ctrl_rs[i].name : i \in 1..Len(clock_ctrl_rs)}

\* a Clock State a stop has written: its five fields are those of both
\* declarations
C18_Witness ==
  /\ ctrl.done = 1
  /\ Len(clock_ctrl_rs) = 5
  /\ Len(clock_ctrl_libc) = 5
  /\ \A i \in 1..5 :
       /\ clock_ctrl_rs[i].name = clock_ctrl_libc[i].name
       /\ clock_ctrl_rs[i].name \in DOMAIN ctrl

(***************************************************************************)
(* C19.  myst_setup_clock returns -1 for every argument and in every       *)
(* state, and writes no field of the Clock State: no call of it moves the  *)
(* state from uninitialized to initialized.                                *)
(***************************************************************************)
\* states to call it in: the current one, and every record of samples as
\* the Clock State, published or not
C19_States ==
  {State} \cup
  {[ctrl |-> c, initialized |-> b] :
     c \in SetupArgs \cup {ZeroCtrl}, b \in BOOLEAN}

C19_SetupAlwaysFails ==
  /\ \A i \in 1..NCalls :
       IsCall(i, "setup")
         => /\ calls[i].ret = Status(-1)
            /\ Post(i) = Pre(i)
            /\ ~Post(i).initialized
  /\ \A st \in C19_States, arg \in SetupArgs :
       LET r == myst_setup_clock(st, arg)
       IN  r.ret = Status(-1) /\ r.st = st

\* two setup calls with positive intervals and different samples, the
\* second on a state a stop has written: both returned -1 and the state is
\* uninitialized
C19_Witness ==
  \E i, j \in 1..NCalls :
    /\ i < j
    /\ ValidSetup(i)
    /\ ValidSetup(j)
    /\ calls[i].arg # calls[j].arg
    /\ Pre(j).ctrl.done = 1
    /\ calls[i].ret = Status(-1)
    /\ calls[j].ret = Status(-1)
    /\ ~initialized

====
